---- MODULE Spec2Model ----
(***************************************************************************)
(* Model of TrueDataFeed (truedata_feed.py): the feed lifecycle            *)
(* (start_feed / stop_feed), the worker thread's poll loop (_run_feed),    *)
(* the change detector (_process_live_data), the normalizer                *)
(* (_process_data) and the two queues.  One caller thread (the streamlit   *)
(* script) and the worker threads that start_feed spawns run interleaved;  *)
(* every step below is one access to the shared fields of the object.      *)
(***************************************************************************)
EXTENDS Integers, Sequences, FiniteSets, TLC

\* ---------------------------------------------------------------- bounds
MaxWorkers == 2      \* worker threads the process can create
MaxCalls   == 2      \* start_feed / stop_feed calls made by the caller
MaxUpdates == 2      \* upstream snapshot updates
MaxFaults  == 1      \* upstream calls (lookup, unsubscribe) that fail

\* ------------------------------------------------------ program constants
max_retries == 3     \* _start_live_data_with_retry(max_retries=3)
maxconn     == 10    \* SimpleConnectionPool(minconn=1, maxconn=10, ...)

\* Two instruments of the fixed SYMBOLS list stand for all of them.
SYMBOLS    == <<"RELIANCE", "SBIN">>
NumSymbols == Len(SYMBOLS)

Caller  == 0
Workers == 1..MaxWorkers
Threads == {Caller} \cup Workers
None    == 0
Handles == 1..NumSymbols

NoSymbol == "<no symbol attribute>"
Absent   == -1                                    \* attribute not present
Null     == -2                                    \* Python's None in a record
NoTimestamp == [clock |-> Absent, tz |-> "absent"]
NowUTC   == [clock |-> 9, tz |-> "utc"]           \* datetime.now(timezone.utc)
NoData   == [symbol |-> NoSymbol, ts |-> NoTimestamp, ltp |-> Absent, volume |-> Absent]

VARIABLES
    running, thread, td_app, req_ids, live_data_objs,   \* fields of TrueDataFeed
    data_queue, message_queue,                          \* its two queues
    live_data, open, nConn,                             \* the upstream SDK
    pc, attempt, iter,                                  \* each thread's position and locals
    slept, emitted, seen, procOk, joinee,               \* locals / per-call logs
    lastCall, nCalls, nChanges, nEnq, nFaults,          \* history
    dirty,                                              \* handles updated during a worker's pass
    table, _connection_pool, used,                      \* the database and DatabaseManager
    query, data, conn, staged, exc,                     \* locals of the script thread
    handed, shown                                       \* history of the two drains

\* What the feed's lifecycle and poll loop never touch.
drainVars == <<table, _connection_pool, used, query, data, conn, staged, exc,
               handed, shown>>

vars == <<running, thread, td_app, req_ids, live_data_objs, data_queue,
          message_queue, live_data, open, nConn, pc, attempt, iter, slept,
          emitted, seen, procOk, joinee, lastCall, nCalls, nChanges, nEnq,
          nFaults, dirty, drainVars>>

\* ------------------------------------------------------------- snapshots
\* A vendor snapshot object: symbol, last traded price (in 1/100), timestamp
\* and cumulative traded quantity.
Base(h) == [symbol |-> SYMBOLS[h], ltp |-> 10000,
            timestamp |-> [clock |-> 1, tz |-> "naive"], ttq |-> 0]

\* What the exchange sends for a handle, one in-place update after the other:
\* the first instrument trades at a new price, then its snapshot loses the
\* symbol attribute; the second only accumulates volume, then only moves its
\* timestamp.  After the third update a snapshot is back at its first value.
Feed(h) ==
    IF h = 1
    THEN << [Base(h) EXCEPT !.ltp = 10150],
            [Base(h) EXCEPT !.ltp = 10150, !.symbol = NoSymbol],
            Base(h) >>
    ELSE << [Base(h) EXCEPT !.ttq = 5],
            [Base(h) EXCEPT !.ttq = 5, !.timestamp = [clock |-> 2, tz |-> "naive"]],
            Base(h) >>

\* deepcopy(x): an independent object with the same value.  Snapshots are
\* values here, so the copy keeps the value and later writes to live_data do
\* not reach it.
deepcopy(x) == x

EmptyDict == [h \in {} |-> Base(1)]

\* Mutant: an assignment to the cache that is lost.
DictKeep(d, k, v) == d

DictSet(d, k, v) == [x \in (DOMAIN d) \cup {k} |-> IF x = k THEN v ELSE d[x]]

\* ------------------------------------------------------------- messages
ToastStarted == <<"toast", "Data feed started!", "check mark">>
ToastStopped == <<"toast", "Data feed stopped", "stop button">>
ErrAlready   == <<"error", "Connection already exists. Try stopping first.">>
ErrStart     == <<"error", "Failed to start feed">>
ErrData      == <<"error", "Data processing failed">>
WarnLost     == <<"warning", "Connection lost, attempting to reconnect...">>
ErrDb        == <<"error", "Database error">>

\* ------------------------------------------------------------ normalizer
hasattr(tick, field) ==
    CASE field = "symbol"    -> tick.symbol # NoSymbol
      [] field = "ltp"       -> tick.ltp # Absent
      [] field = "timestamp" -> tick.timestamp # NoTimestamp
      [] field = "ttq"       -> tick.ttq # Absent

\* Mutant: every timestamp is stamped UTC, the aware ones too.
EnsureUTCAlways(ts) == [ts EXCEPT !.tz = "utc"]

\* timestamp.replace(tzinfo=timezone.utc) when tzinfo is None
EnsureUTC(ts) == IF ts.tz = "naive" THEN [ts EXCEPT !.tz = "utc"] ELSE ts

\* The db_data dict built by _process_data from a snapshot that has a symbol.
db_data(tick, now) ==
    [symbol |-> tick.symbol,
     ts     |-> EnsureUTC(IF hasattr(tick, "timestamp") THEN tick.timestamp ELSE now),
     ltp    |-> IF hasattr(tick, "ltp") THEN tick.ltp ELSE Null,
     volume |-> IF hasattr(tick, "ttq") THEN tick.ttq ELSE 0]

\* tick_data.symbol raises AttributeError when the attribute is missing.
ProcessDataRaises(tick) == ~hasattr(tick, "symbol")


NoSeen == [cur |-> Base(1), old |-> Base(1)]

\* ------------------------------------------------------------- helpers
Range(q) == {q[i] : i \in 1..Len(q)}
Alive(w) == w # None /\ pc[w] \notin {"unborn", "dead", "crashed"}

\* Where a call of start_feed returns to: the caller's script, or the worker's
\* loop (after _handle_connection_loss, whose trailing sleep changes nothing).
Ret(t) == IF t = Caller THEN "idle" ELSE "rf_loop"

\* Positions of a worker inside _handle_connection_loss: from any of them the
\* worker still sleeps 5 s (line 133) before it looks at the flag again.
ReconnectPcs == {"hcl", "hcl_cc", "hcl_sf", "sf_cc", "sf_td", "sf_sub",
                 "sf_init", "sf_run", "sf_toast", "hse_cc"}

Put(t, msg) ==
    /\ message_queue' = Append(message_queue, msg)
    /\ emitted' = [emitted EXCEPT ![t] = Append(@, msg)]

\* A call that returns leaves its locals and its logs behind.
Forget(t) ==
    /\ attempt' = [attempt EXCEPT ![t] = 0]
    /\ slept' = [slept EXCEPT ![t] = <<>>]
    /\ emitted' = [emitted EXCEPT ![t] = <<>>]

Goto(t, label) == pc' = [pc EXCEPT ![t] = label]

\* Worker w is inside _process_live_data.
InPass(w) == pc[w] \in {"pl_cmp", "pl_proc", "pl_copy"}

\* A pass that ends forgets which snapshots changed while it ran.
EndPass(w) == dirty' = [dirty EXCEPT ![w] = {}]

\* DatabaseManager before its first use and the script thread outside any
\* call; rows are the rows the table holds from earlier runs.
InitDatabase(rows) ==
    /\ table = rows
    /\ _connection_pool = None
    /\ used = 0
    /\ query = "none"
    /\ data = NoData
    /\ conn = None
    /\ staged = {}
    /\ exc = "none"
    /\ handed = <<>>
    /\ shown = <<>>

Init ==
    /\ running = FALSE
    /\ thread = None
    /\ td_app = None
    /\ req_ids = <<>>
    /\ live_data_objs = EmptyDict
    /\ data_queue = <<>>
    /\ message_queue = <<>>
    /\ live_data = [h \in Handles |-> Base(h)]
    /\ open = {}
    /\ nConn = 0
    /\ pc = [t \in Threads |-> IF t = Caller THEN "idle" ELSE "unborn"]
    /\ attempt = [t \in Threads |-> 0]
    /\ iter = [t \in Threads |-> <<>>]
    /\ slept = [t \in Threads |-> <<>>]
    /\ emitted = [t \in Threads |-> <<>>]
    /\ seen = [t \in Threads |-> NoSeen]
    /\ procOk = [t \in Threads |-> "none"]
    /\ joinee = None
    /\ lastCall = [op |-> "none", entered |-> FALSE]
    /\ nCalls = 0
    /\ nChanges = [h \in Handles |-> 0]
    /\ nEnq = [h \in Handles |-> 0]
    /\ nFaults = 0
    /\ dirty = [w \in Workers |-> {}]
    /\ InitDatabase({})

\* ------------------------------------------------------------ upstream
\* The vendor SDK mutates the snapshot of a subscribed handle in place; the
\* updates followed are those that arrive while the feed is running.
UpstreamUpdate(h) ==
    /\ running
    /\ td_app # None
    /\ h \in Range(req_ids)
    /\ nChanges[1] + nChanges[2] < MaxUpdates
    /\ live_data' = [live_data EXCEPT ![h] = Feed(h)[(nChanges[h] % 3) + 1]]
    /\ nChanges' = [nChanges EXCEPT ![h] = @ + 1]
    /\ dirty' = [w \in Workers |-> IF InPass(w) THEN dirty[w] \cup {h} ELSE dirty[w]]
    /\ UNCHANGED <<running, thread, td_app, req_ids, live_data_objs, data_queue,
                   message_queue, open, nConn, pc, attempt, iter, slept,
                   emitted, seen, procOk, joinee, lastCall, nCalls, nEnq, nFaults>>
    /\ UNCHANGED drainVars

\* ------------------------------------------------- _handle_start_error
\* The except branch of start_feed: the error message, running = False, then
\* _cleanup_connection ("hse_cc").
_handle_start_error(t, msg) ==
    /\ Put(t, msg)
    /\ running' = FALSE
    /\ Goto(t, "hse_cc")

\* --------------------------------------------------- _cleanup_connection
\* Nothing to do without a connection; otherwise stop_live_data and
\* disconnect, where an exception of either is swallowed and leaves the
\* upstream connection open, and finally td_app = None.
_cleanup_connection ==
    IF td_app = None
    THEN UNCHANGED <<td_app, open, nFaults>>
    ELSE /\ td_app' = None
         /\ \/ /\ open' = open \ {td_app}
               /\ UNCHANGED nFaults
            \/ /\ nFaults < MaxFaults
               /\ nFaults' = nFaults + 1
               /\ UNCHANGED open

\* The four calls of _cleanup_connection and where each continues.
CleanupSites(t) ==
    { <<"sf_cc", "sf_td">>,
      <<"hse_cc", Ret(t)>>,
      <<"st_cc", "st_reset">>,
      <<"hcl_cc", "hcl_sf">> }

Cleanup(t) ==
    /\ \E site \in CleanupSites(t) :
          /\ pc[t] = site[1]
          /\ Goto(t, site[2])
          /\ IF site[1] = "hse_cc"
             THEN Forget(t)
             ELSE UNCHANGED <<attempt, slept, emitted>>
    /\ _cleanup_connection
    /\ UNCHANGED <<running, thread, req_ids, live_data_objs, data_queue,
                   message_queue, live_data, nConn, iter, seen, procOk, joinee,
                   lastCall, nCalls, nChanges, nEnq>>
    /\ UNCHANGED <<dirty, drainVars>>

\* ------------------------------------------------------------ start_feed
\* Line 24: the body runs only when the feed is not running.
start_feed_guard == ~running

\* Entry of start_feed by thread t; the per-call logs start empty.
start_feed(t) ==
    IF start_feed_guard
    THEN /\ Goto(t, "sf_cc")
         /\ attempt' = [attempt EXCEPT ![t] = 0]
         /\ slept' = [slept EXCEPT ![t] = <<>>]
         /\ emitted' = [emitted EXCEPT ![t] = <<>>]
    ELSE /\ Goto(t, Ret(t))
         /\ UNCHANGED <<attempt, slept, emitted>>

CallStartFeed ==
    /\ pc[Caller] = "idle"
    /\ nCalls < MaxCalls
    /\ nCalls' = nCalls + 1
    /\ lastCall' = [op |-> "start_feed", entered |-> start_feed_guard]
    /\ start_feed(Caller)
    /\ UNCHANGED <<running, thread, td_app, req_ids, live_data_objs, data_queue,
                   message_queue, live_data, open, nConn, iter, seen, procOk,
                   joinee, nChanges, nEnq, nFaults>>
    /\ UNCHANGED <<dirty, drainVars>>

\* Lines 30-32: TD(...) opens a connection or raises.
OpenConnection(t) ==
    /\ pc[t] = "sf_td"
    /\ \/ /\ nConn' = nConn + 1
          /\ td_app' = nConn + 1
          /\ open' = open \cup {nConn + 1}
          /\ Goto(t, "sf_sub")
          /\ UNCHANGED <<running, message_queue, emitted>>
       \/ /\ \E msg \in {ErrStart} \cup (IF open # {} THEN {ErrAlready} ELSE {}) :
                _handle_start_error(t, msg)
          /\ UNCHANGED <<nConn, td_app, open>>
    /\ UNCHANGED <<thread, req_ids, live_data_objs, data_queue, live_data,
                   attempt, iter, slept, seen, procOk, joinee, lastCall, nCalls,
                   nChanges, nEnq, nFaults>>
    /\ UNCHANGED <<dirty, drainVars>>

\* Mutant: the same delay after every failure.
BackoffFixed(a) == 1

\* Line 72: time.sleep(2 ** attempt)
BackoffDelay(a) == 2 ^ a

\* Line 70: the last attempt re-raises.
LastAttempt(a) == a = max_retries - 1

\* _start_live_data_with_retry, one attempt per step.
Subscribe(t) ==
    /\ pc[t] = "sf_sub"
    /\ \/ /\ td_app # None
          /\ req_ids' = [i \in 1..NumSymbols |-> i]
          /\ Goto(t, "sf_init")
          /\ UNCHANGED <<running, message_queue, emitted, attempt, slept>>
       \/ /\ LastAttempt(attempt[t])
          /\ _handle_start_error(t, ErrStart)
          /\ UNCHANGED <<req_ids, attempt, slept>>
       \/ /\ ~LastAttempt(attempt[t])
          /\ attempt' = [attempt EXCEPT ![t] = @ + 1]
          /\ slept' = [slept EXCEPT ![t] = Append(@, BackoffDelay(attempt[t]))]
          /\ UNCHANGED <<req_ids, pc, running, message_queue, emitted>>
    /\ UNCHANGED <<thread, td_app, live_data_objs, data_queue, live_data, open,
                   nConn, iter, seen, procOk, joinee, lastCall, nCalls,
                   nChanges, nEnq, nFaults>>
    /\ UNCHANGED <<dirty, drainVars>>

\* The cache after seeding the first k handles of req_ids.
Seeded(k) == [h \in {req_ids[i] : i \in 1..k} |-> deepcopy(live_data[h])]

\* _initialize_data_structures: the cache is emptied, then seeded handle by
\* handle; a lookup that raises leaves it partly seeded.
InitializeDataStructures(t) ==
    /\ pc[t] = "sf_init"
    /\ \/ /\ (td_app # None \/ req_ids = <<>>)
          /\ live_data_objs' = Seeded(Len(req_ids))
          /\ Goto(t, "sf_run")
          /\ UNCHANGED <<running, message_queue, emitted, nFaults>>
       \/ /\ td_app = None
          /\ req_ids # <<>>
          /\ live_data_objs' = EmptyDict
          /\ _handle_start_error(t, ErrStart)
          /\ UNCHANGED nFaults
       \/ /\ td_app # None
          /\ nFaults < MaxFaults
          /\ nFaults' = nFaults + 1
          /\ \E k \in 1..Len(req_ids) : live_data_objs' = Seeded(k - 1)
          /\ _handle_start_error(t, ErrStart)
    /\ UNCHANGED <<thread, td_app, req_ids, data_queue, live_data, open, nConn,
                   attempt, iter, slept, seen, procOk, joinee, lastCall, nCalls,
                   nChanges, nEnq>>
    /\ UNCHANGED <<dirty, drainVars>>

FreeWorkers == {w \in Workers : pc[w] = "unborn"}

\* Lines 41-43: running = True, then the worker thread is created and started
\* (Thread.start raises when the process can create no more threads).
StartThread(t) ==
    /\ pc[t] = "sf_run"
    /\ IF FreeWorkers # {}
       THEN LET w == CHOOSE x \in FreeWorkers : \A y \in FreeWorkers : x <= y
            IN /\ running' = TRUE
               /\ thread' = w
               /\ pc' = [pc EXCEPT ![t] = "sf_toast", ![w] = "rf_loop"]
               /\ UNCHANGED <<message_queue, emitted>>
       ELSE /\ _handle_start_error(t, ErrStart)
            /\ UNCHANGED thread
    /\ UNCHANGED <<td_app, req_ids, live_data_objs, data_queue, live_data, open,
                   nConn, attempt, iter, slept, seen, procOk, joinee, lastCall,
                   nCalls, nChanges, nEnq, nFaults>>
    /\ UNCHANGED <<dirty, drainVars>>

\* Line 45
StartedToast(t) ==
    /\ pc[t] = "sf_toast"
    /\ message_queue' = Append(message_queue, ToastStarted)
    /\ Forget(t)
    /\ Goto(t, Ret(t))
    /\ UNCHANGED <<running, thread, td_app, req_ids, live_data_objs, data_queue,
                   live_data, open, nConn, iter, seen, procOk, joinee, lastCall,
                   nCalls, nChanges, nEnq, nFaults>>
    /\ UNCHANGED <<dirty, drainVars>>

\* ------------------------------------------------------------- stop_feed
\* Mutant: stop_feed without its test of the flag.
stop_feed_unguarded == TRUE

\* Line 93: the body runs only when the feed is running.
stop_feed_guard == running

\* Lines 93-94
CallStopFeed ==
    /\ pc[Caller] = "idle"
    /\ nCalls < MaxCalls
    /\ nCalls' = nCalls + 1
    /\ IF stop_feed_guard
       THEN /\ running' = FALSE
            /\ Goto(Caller, "st_read")
       ELSE UNCHANGED <<running, pc>>
    /\ lastCall' = [op |-> "stop_feed", entered |-> stop_feed_guard]
    /\ UNCHANGED <<thread, td_app, req_ids, live_data_objs, data_queue,
                   message_queue, live_data, open, nConn, attempt, iter, slept,
                   emitted, seen, procOk, joinee, nChanges, nEnq, nFaults>>
    /\ UNCHANGED <<dirty, drainVars>>

\* Line 96: if self.thread and self.thread.is_alive()
StopReadThread ==
    /\ pc[Caller] = "st_read"
    /\ IF Alive(thread)
       THEN joinee' = thread /\ Goto(Caller, "st_join")
       ELSE joinee' = None /\ Goto(Caller, "st_cc")
    /\ UNCHANGED <<running, thread, td_app, req_ids, live_data_objs, data_queue,
                   message_queue, live_data, open, nConn, attempt, iter, slept,
                   emitted, seen, procOk, lastCall, nCalls, nChanges, nEnq, nFaults>>
    /\ UNCHANGED <<dirty, drainVars>>

\* Line 97: join(timeout=5) returns when the worker has ended, or after 5 s,
\* which a worker outlasts when it is inside _handle_connection_loss or finds
\* the flag set again.
JoinReturns(w) == ~Alive(w) \/ pc[w] \in ReconnectPcs \/ running

StopJoin ==
    /\ pc[Caller] = "st_join"
    /\ JoinReturns(joinee)
    /\ Goto(Caller, "st_cc")
    /\ UNCHANGED <<running, thread, td_app, req_ids, live_data_objs, data_queue,
                   message_queue, live_data, open, nConn, attempt, iter, slept,
                   emitted, seen, procOk, joinee, lastCall, nCalls, nChanges,
                   nEnq, nFaults>>
    /\ UNCHANGED <<dirty, drainVars>>

\* Lines 102-104
StopReset ==
    /\ pc[Caller] = "st_reset"
    /\ req_ids' = <<>>
    /\ live_data_objs' = EmptyDict
    /\ message_queue' = Append(message_queue, ToastStopped)
    /\ joinee' = None
    /\ Goto(Caller, "idle")
    /\ UNCHANGED <<running, thread, td_app, data_queue, live_data, open, nConn,
                   attempt, iter, slept, emitted, seen, procOk, lastCall, nCalls,
                   nChanges, nEnq, nFaults>>
    /\ UNCHANGED <<dirty, drainVars>>


\* -------------------------------------------------------------- _run_feed
\* Line 111: while self.running
LoopTest(w) ==
    /\ pc[w] = "rf_loop"
    /\ Goto(w, IF running THEN "rf_health" ELSE "dead")
    /\ UNCHANGED <<running, thread, td_app, req_ids, live_data_objs, data_queue,
                   message_queue, live_data, open, nConn, attempt, iter, slept,
                   emitted, seen, procOk, joinee, lastCall, nCalls, nChanges,
                   nEnq, nFaults>>
    /\ UNCHANGED <<dirty, drainVars>>

\* Lines 123-125
_is_connection_healthy == running

\* Lines 113-117: the health check; a healthy worker starts a pass over the
\* list that req_ids names now.
HealthCheck(w) ==
    /\ pc[w] = "rf_health"
    /\ IF _is_connection_healthy
       THEN /\ iter' = [iter EXCEPT ![w] = req_ids]
            /\ procOk' = [procOk EXCEPT ![w] = "none"]
            /\ Goto(w, IF req_ids = <<>> THEN "rf_loop" ELSE "pl_cmp")
       ELSE /\ Goto(w, "hcl")
            /\ UNCHANGED <<iter, procOk>>
    /\ UNCHANGED dirty
    /\ UNCHANGED <<running, thread, td_app, req_ids, live_data_objs, data_queue,
                   message_queue, live_data, open, nConn, attempt, slept,
                   emitted, seen, joinee, lastCall, nCalls, nChanges, nEnq,
                   nFaults>>
    /\ UNCHANGED drainVars

\* Line 129: _handle_connection_loss puts the warning, then cleans up.
ConnectionLoss(w) ==
    /\ pc[w] = "hcl"
    /\ message_queue' = Append(message_queue, WarnLost)
    /\ Goto(w, "hcl_cc")
    /\ UNCHANGED <<running, thread, td_app, req_ids, live_data_objs, data_queue,
                   live_data, open, nConn, attempt, iter, slept, emitted, seen, procOk,
                   joinee, lastCall, nCalls, nChanges, nEnq, nFaults>>
    /\ UNCHANGED <<dirty, drainVars>>

\* Line 132: the worker calls start_feed itself.
ReconnectStartFeed(w) ==
    /\ pc[w] = "hcl_sf"
    /\ start_feed(w)
    /\ UNCHANGED <<running, thread, td_app, req_ids, live_data_objs, data_queue,
                   message_queue, live_data, open, nConn, iter, seen, procOk,
                   joinee, lastCall, nCalls, nChanges, nEnq, nFaults>>
    /\ UNCHANGED <<dirty, drainVars>>

\* Mutants of the comparison: one that finds every snapshot changed, one that
\* looks at the price alone.
DiffersAlways(current_data, cached) == TRUE
DiffersPriceOnly(current_data, cached) == current_data.ltp # cached.ltp

\* Line 141: comparison of the snapshot with the cached copy, by value.
Differs(current_data, cached) == current_data # cached

\* Lines 139-141 for the handle at the head of the pass.  A lookup that raises
\* (no connection object, no cache entry, upstream failure) reaches the except
\* branch of _run_feed, which calls self._handle_feed_error: the class defines
\* no such method, so AttributeError leaves the thread.
Compare(w) ==
    /\ pc[w] = "pl_cmp"
    /\ LET h == Head(iter[w]) IN
       \/ /\ td_app # None
          /\ h \in DOMAIN live_data_objs
          /\ seen' = [seen EXCEPT ![w] = [cur |-> live_data[h],
                                          old |-> live_data_objs[h]]]
          /\ IF Differs(live_data[h], live_data_objs[h])
             THEN Goto(w, "pl_proc") /\ UNCHANGED <<iter, dirty>>
             ELSE /\ iter' = [iter EXCEPT ![w] = Tail(@)]
                  /\ IF Tail(iter[w]) = <<>>
                     THEN Goto(w, "rf_loop") /\ EndPass(w)
                     ELSE Goto(w, "pl_cmp") /\ UNCHANGED dirty
          /\ UNCHANGED nFaults
       \/ /\ (td_app = None \/ h \notin DOMAIN live_data_objs)
          /\ Goto(w, "crashed")
          /\ EndPass(w)
          /\ UNCHANGED <<seen, iter, nFaults>>
       \/ /\ td_app # None
          /\ h \in DOMAIN live_data_objs
          /\ nFaults < MaxFaults
          /\ nFaults' = nFaults + 1
          /\ Goto(w, "crashed")
          /\ EndPass(w)
          /\ UNCHANGED <<seen, iter>>
    /\ UNCHANGED <<running, thread, td_app, req_ids, live_data_objs, data_queue,
                   message_queue, live_data, open, nConn, attempt, slept,
                   emitted, procOk, joinee, lastCall, nCalls, nChanges, nEnq>>
    /\ UNCHANGED drainVars

\* Mutant: _process_data without its try/except; the AttributeError of a
\* snapshot without symbol reaches _run_feed and ends the thread.
_process_data_uncaught(w) ==
    LET h == Head(iter[w])
        tick_data == live_data[h]
    IN IF ProcessDataRaises(tick_data)
       THEN /\ Goto(w, "crashed")
            /\ UNCHANGED <<data_queue, nEnq, message_queue, procOk>>
       ELSE /\ data_queue' = Append(data_queue, db_data(tick_data, NowUTC))
            /\ nEnq' = [nEnq EXCEPT ![h] = @ + 1]
            /\ procOk' = [procOk EXCEPT ![w] = "ok"]
            /\ Goto(w, "pl_copy")
            /\ UNCHANGED message_queue

\* _process_data(current_data): current_data is the vendor's object, read now.
_process_data(w) ==
    LET h == Head(iter[w])
        tick_data == live_data[h]
    IN IF ProcessDataRaises(tick_data)
       THEN /\ message_queue' = Append(message_queue, ErrData)
            /\ procOk' = [procOk EXCEPT ![w] = "failed"]
            /\ Goto(w, "pl_copy")
            /\ UNCHANGED <<data_queue, nEnq>>
       ELSE /\ data_queue' = Append(data_queue, db_data(tick_data, NowUTC))
            /\ nEnq' = [nEnq EXCEPT ![h] = @ + 1]
            /\ procOk' = [procOk EXCEPT ![w] = "ok"]
            /\ Goto(w, "pl_copy")
            /\ UNCHANGED message_queue

\* Line 142
ProcessData(w) ==
    /\ pc[w] = "pl_proc"
    /\ _process_data(w)
    /\ UNCHANGED <<running, thread, td_app, req_ids, live_data_objs, live_data,
                   open, nConn, attempt, iter, slept, emitted, seen, joinee,
                   lastCall, nCalls, nChanges, nFaults>>
    /\ UNCHANGED <<dirty, drainVars>>

\* Line 143, then the next handle of the pass, or the end of the pass.
UpdateCache(w) ==
    /\ pc[w] = "pl_copy"
    /\ LET h == Head(iter[w]) IN
          live_data_objs' = DictSet(live_data_objs, h, deepcopy(live_data[h]))
    /\ iter' = [iter EXCEPT ![w] = Tail(@)]
    /\ seen' = [seen EXCEPT ![w] = NoSeen]
    /\ IF Tail(iter[w]) = <<>>
       THEN Goto(w, "rf_loop") /\ EndPass(w)
       ELSE Goto(w, "pl_cmp") /\ UNCHANGED dirty
    /\ UNCHANGED <<running, thread, td_app, req_ids, data_queue, message_queue,
                   live_data, open, nConn, attempt, slept, emitted, procOk,
                   joinee, lastCall, nCalls, nChanges, nEnq, nFaults>>
    /\ UNCHANGED drainVars

\* ------------------------------------------------------ process_messages
\* Mutant: a display that knows toasts only.
PresentToastOnly(msg) ==
    IF msg[1] = "toast" THEN << <<"st.toast", msg[2], msg[3]>> >> ELSE << >>

\* What streamlit is asked to show for a message: st.toast(text, icon=...),
\* st.error(text) or st.warning(text); a message of another type shows nothing.
Present(msg) ==
    CASE msg[1] = "toast"   -> << <<"st.toast", msg[2], msg[3]>> >>
      [] msg[1] = "error"   -> << <<"st.error", msg[2]>> >>
      [] msg[1] = "warning" -> << <<"st.warning", msg[2]>> >>
      [] OTHER              -> << >>

\* content[1] of a toast that carries no icon raises IndexError.
PresentRaises(msg) == msg[1] = "toast" /\ Len(msg) < 3

\* The script thread (app.py) enters one of its three calls.
Enter(op, label) ==
    /\ pc[Caller] = "idle"
    /\ nCalls < MaxCalls
    /\ nCalls' = nCalls + 1
    /\ lastCall' = [op |-> op, entered |-> TRUE]
    /\ Goto(Caller, label)

feedVars == <<running, thread, td_app, req_ids, live_data_objs, live_data,
              open, nConn, attempt, iter, slept, emitted, seen, procOk, joinee,
              nChanges, nEnq, nFaults, dirty>>

CallProcessMessages ==
    /\ Enter("process_messages", "pm_test")
    /\ UNCHANGED <<feedVars, data_queue, message_queue, drainVars>>

\* Line 169: while not self.message_queue.empty()
MessagesTest ==
    /\ pc[Caller] = "pm_test"
    /\ Goto(Caller, IF message_queue = <<>> THEN "idle" ELSE "pm_get")
    /\ UNCHANGED <<feedVars, data_queue, message_queue, drainVars, lastCall, nCalls>>

\* Lines 170-176: get_nowait (queue.Empty is not caught here) and the display.
MessagesGet ==
    /\ pc[Caller] = "pm_get"
    /\ IF message_queue = <<>> \/ PresentRaises(Head(message_queue))
       THEN /\ Goto(Caller, "raised")
            /\ message_queue' = IF message_queue = <<>> THEN <<>> ELSE Tail(message_queue)
            /\ UNCHANGED shown
       ELSE /\ message_queue' = Tail(message_queue)
            /\ shown' = shown \o Present(Head(message_queue))
            /\ Goto(Caller, "pm_test")
    /\ UNCHANGED <<feedVars, data_queue, lastCall, nCalls, table, _connection_pool,
                   used, query, data, conn, staged, exc, handed>>

\* ---------------------------------------------------------- process_queue
CallProcessQueue ==
    /\ Enter("process_queue", "pq_test")
    /\ UNCHANGED <<feedVars, data_queue, message_queue, drainVars>>

\* Line 180: while not self.data_queue.empty()
QueueTest ==
    /\ pc[Caller] = "pq_test"
    /\ Goto(Caller, IF data_queue = <<>> THEN "idle" ELSE "pq_get")
    /\ UNCHANGED <<feedVars, data_queue, message_queue, drainVars, lastCall, nCalls>>

\* Mutant: a drain that takes the newest record first.
GetNewest(q) == [item |-> q[Len(q)], rest |-> SubSeq(q, 1, Len(q) - 1)]

\* queue.Queue.get_nowait(): the oldest item leaves the queue.
get_nowait(q) == [item |-> Head(q), rest |-> Tail(q)]

\* Lines 182-185: the record leaves the queue and goes to _store_data, which
\* builds the INSERT and calls execute_query; queue.Empty ends the drain.
QueueGet ==
    /\ pc[Caller] = "pq_get"
    /\ IF data_queue = <<>>
       THEN /\ Goto(Caller, "idle")
            /\ UNCHANGED <<data_queue, data, query, handed>>
       ELSE /\ data' = get_nowait(data_queue).item
            /\ data_queue' = get_nowait(data_queue).rest
            /\ handed' = Append(handed, get_nowait(data_queue).item)
            /\ query' = "INSERT"
            /\ Goto(Caller, "eq_conn")
    /\ UNCHANGED <<feedVars, message_queue, lastCall, nCalls, table,
                   _connection_pool, used, conn, staged, exc, shown>>

\* app.py, get_recent_data: the SELECT of the dashboard.
CallGetRecentData ==
    /\ Enter("get_recent_data", "eq_conn")
    /\ query' = "SELECT"
    /\ UNCHANGED <<feedVars, data_queue, message_queue, table, _connection_pool,
                   used, data, conn, staged, exc, handed, shown>>

\* ---------------------------------------------------------- execute_query
\* The SimpleConnectionPool object that initialize() creates.
ThePool == 1

\* PRIMARY KEY (symbol, ts)
Key(row) == <<row.symbol, row.ts>>

\* Mutant: ON CONFLICT (symbol, ts) DO UPDATE.
UpsertOverwrite(rows, row) == {x \in rows : Key(x) # Key(row)} \cup {row}

\* INSERT ... ON CONFLICT (symbol, ts) DO NOTHING
Upsert(rows, row) ==
    IF \E x \in rows : Key(x) = Key(row) THEN rows ELSE rows \cup {row}

\* Mutant: the connection goes back only when no exception is on its way out.
ReleaseOnSuccess(e) == e = "none"

\* Lines 44-45: the finally clause runs on every way out of the try block.
RunsFinally(e) == TRUE

\* Lines 28-30: putconn when there is a pool and a connection.
return_connection(connection) ==
    IF _connection_pool # None /\ connection # None THEN used - 1 ELSE used

\* Mutant: _store_data without its try/except.
_store_data_uncaught(failed) ==
    /\ Goto(Caller, IF failed THEN "raised" ELSE "pq_test")
    /\ UNCHANGED message_queue

\* Lines 195-198: _store_data turns an exception of execute_query into an
\* error message; process_queue then tests the queue again.
_store_data(failed) ==
    /\ message_queue' = IF failed THEN Append(message_queue, ErrDb) ELSE message_queue
    /\ Goto(Caller, "pq_test")

ErrFetch == <<"st.error", "Data fetch error">>

\* execute_query returns or raises to the function that called it:
\* _store_data for the INSERT, get_recent_data (app.py) for the SELECT.
ExecuteQueryExit(failed) ==
    /\ IF query = "INSERT"
       THEN _store_data(failed) /\ UNCHANGED shown
       ELSE /\ shown' = IF failed THEN Append(shown, ErrFetch) ELSE shown
            /\ Goto(Caller, "idle")
            /\ UNCHANGED message_queue
    /\ query' = "none"
    /\ data' = NoData
    /\ exc' = "none"
    /\ staged' = {}

\* Line 34, get_connection: the pool is created at first use (which connects
\* and can fail); getconn raises PoolError when every connection is in use.
\* An exception here leaves execute_query before its try block.
GetConnection ==
    /\ pc[Caller] = "eq_conn"
    /\ \/ /\ used < maxconn
          /\ _connection_pool' = ThePool
          /\ used' = used + 1
          /\ conn' = 1
          /\ staged' = table
          /\ Goto(Caller, "eq_exec")
          /\ UNCHANGED <<message_queue, query, data, exc, shown>>
       \/ /\ _connection_pool = None
          /\ ExecuteQueryExit(TRUE)
          /\ UNCHANGED <<_connection_pool, used, conn>>
       \/ /\ used >= maxconn
          /\ _connection_pool' = ThePool
          /\ ExecuteQueryExit(TRUE)
          /\ UNCHANGED <<used, conn>>
    /\ UNCHANGED <<feedVars, data_queue, lastCall, nCalls, table, handed>>

\* Lines 36-39: the statement runs in the connection's transaction, or raises
\* (storage unreachable); a SELECT returns its rows from inside the try block.
ExecuteStatement ==
    /\ pc[Caller] = "eq_exec"
    /\ \/ /\ staged' = IF query = "INSERT" THEN Upsert(staged, data) ELSE staged
          /\ Goto(Caller, IF query = "INSERT" THEN "eq_commit" ELSE "eq_return")
          /\ UNCHANGED exc
       \/ /\ exc' = "query"
          /\ Goto(Caller, "eq_rollback")
          /\ UNCHANGED staged
    /\ UNCHANGED <<feedVars, data_queue, message_queue, lastCall, nCalls, table,
                   _connection_pool, used, query, data, conn, handed, shown>>

\* Line 40
Commit ==
    /\ pc[Caller] = "eq_commit"
    /\ \/ /\ table' = staged
          /\ Goto(Caller, "eq_return")
          /\ UNCHANGED exc
       \/ /\ exc' = "query"
          /\ Goto(Caller, "eq_rollback")
          /\ UNCHANGED table
    /\ UNCHANGED <<feedVars, data_queue, message_queue, lastCall, nCalls,
                   _connection_pool, used, query, data, conn, staged, handed, shown>>

\* Lines 41-43: rollback, which can raise too, then the exception goes on.
Rollback ==
    /\ pc[Caller] = "eq_rollback"
    /\ staged' = table
    /\ \E e \in {"query", "rollback"} : exc' = e
    /\ Goto(Caller, "eq_return")
    /\ UNCHANGED <<feedVars, data_queue, message_queue, lastCall, nCalls, table,
                   _connection_pool, used, query, data, conn, handed, shown>>

\* Lines 44-45, then the return to the calling function.
ReturnConnection ==
    /\ pc[Caller] = "eq_return"
    /\ used' = IF RunsFinally(exc) THEN return_connection(conn) ELSE used
    /\ conn' = None
    /\ ExecuteQueryExit(exc # "none")
    /\ UNCHANGED <<feedVars, data_queue, lastCall, nCalls, table,
                   _connection_pool, handed>>

\* ------------------------------------------------------------------ Next
Next ==
    \/ CallStartFeed
    \/ CallStopFeed
    \/ StopReadThread
    \/ StopJoin
    \/ StopReset
    \/ \E t \in Threads : Cleanup(t)
    \/ \E t \in Threads : OpenConnection(t)
    \/ \E t \in Threads : Subscribe(t)
    \/ \E t \in Threads : InitializeDataStructures(t)
    \/ \E t \in Threads : StartThread(t)
    \/ \E t \in Threads : StartedToast(t)
    \/ \E w \in Workers : LoopTest(w)
    \/ \E w \in Workers : HealthCheck(w)
    \/ \E w \in Workers : ConnectionLoss(w)
    \/ \E w \in Workers : ReconnectStartFeed(w)
    \/ \E w \in Workers : Compare(w)
    \/ \E w \in Workers : ProcessData(w)
    \/ \E w \in Workers : UpdateCache(w)
    \/ \E h \in Handles : UpstreamUpdate(h)

Spec == Init /\ [][Next]_vars

\* ------------------------------------------------- the feed, once started
\* The state a first start_feed() of the script leaves: connected and
\* subscribed, the cache seeded, the worker about to test the flag.
InitStarted ==
    /\ running = TRUE
    /\ thread = 1
    /\ td_app = 1
    /\ req_ids = [i \in 1..NumSymbols |-> i]
    /\ live_data_objs = [h \in Handles |-> Base(h)]
    /\ data_queue = <<>>
    /\ message_queue = <<ToastStarted>>
    /\ live_data = [h \in Handles |-> Base(h)]
    /\ open = {1}
    /\ nConn = 1
    /\ pc = [t \in Threads |-> CASE t = Caller -> "idle" [] t = 1 -> "rf_loop"
                                 [] OTHER -> "unborn"]
    /\ attempt = [t \in Threads |-> 0]
    /\ iter = [t \in Threads |-> <<>>]
    /\ slept = [t \in Threads |-> <<>>]
    /\ emitted = [t \in Threads |-> <<>>]
    /\ seen = [t \in Threads |-> NoSeen]
    /\ procOk = [t \in Threads |-> "none"]
    /\ joinee = None
    /\ lastCall = [op |-> "start_feed", entered |-> TRUE]
    /\ nCalls = 0
    /\ nChanges = [h \in Handles |-> 0]
    /\ nEnq = [h \in Handles |-> 0]
    /\ nFaults = 0
    /\ dirty = [w \in Workers |-> {}]

\* A row that an earlier run of the dashboard left in the table.
OldRow == [symbol |-> SYMBOLS[2], ts |-> [clock |-> 1, tz |-> "utc"],
           ltp |-> 9900, volume |-> 1]

\* The dashboard with the feed started: the worker polls while the script
\* drains the two queues and reads the table.
InitDrain ==
    /\ InitStarted
    /\ \E rows \in {{}, {OldRow}} : InitDatabase(rows)

NextDrain ==
    \/ \E w \in Workers : LoopTest(w)
    \/ \E w \in Workers : HealthCheck(w)
    \/ \E w \in Workers : Compare(w)
    \/ \E w \in Workers : ProcessData(w)
    \/ \E w \in Workers : UpdateCache(w)
    \/ \E h \in Handles : UpstreamUpdate(h)
    \/ CallProcessMessages
    \/ MessagesTest
    \/ MessagesGet
    \/ CallProcessQueue
    \/ QueueTest
    \/ QueueGet
    \/ CallGetRecentData
    \/ GetConnection
    \/ ExecuteStatement
    \/ Commit
    \/ Rollback
    \/ ReturnConnection

SpecDrain == InitDrain /\ [][NextDrain]_vars

\* --------------------------------------------- the normalizer on its own
\* The snapshots the vendor can hand over: each field present or not, a
\* timestamp without timezone, in UTC or in another zone.
Ticks ==
    [symbol    : {SYMBOLS[1], NoSymbol},
     ltp       : {Absent, 10000, 10150},
     timestamp : {NoTimestamp} \cup [clock : {1, 2}, tz : {"naive"}]
                               \cup [clock : {1}, tz : {"utc", "ist"}],
     ttq       : {Absent, 0, 5}]

\* The started feed, its worker at line 142 for the first handle, whose
\* snapshot was found different from the seeded cache entry.
InitNorm ==
    /\ running = TRUE
    /\ thread = 1
    /\ td_app = 1
    /\ req_ids = [i \in 1..NumSymbols |-> i]
    /\ live_data_objs = [h \in Handles |-> Base(h)]
    /\ data_queue = <<>>
    /\ message_queue = <<ToastStarted>>
    /\ \E tick \in Ticks \ {Base(1)} :
          /\ live_data = [h \in Handles |-> IF h = 1 THEN tick ELSE Base(h)]
          /\ seen = [t \in Threads |-> IF t = 1 THEN [cur |-> tick, old |-> Base(1)]
                                               ELSE NoSeen]
    /\ open = {1}
    /\ nConn = 1
    /\ pc = [t \in Threads |-> CASE t = Caller -> "idle" [] t = 1 -> "pl_proc"
                                 [] OTHER -> "unborn"]
    /\ attempt = [t \in Threads |-> 0]
    /\ iter = [t \in Threads |-> IF t = 1 THEN req_ids ELSE <<>>]
    /\ slept = [t \in Threads |-> <<>>]
    /\ emitted = [t \in Threads |-> <<>>]
    /\ procOk = [t \in Threads |-> "none"]
    /\ joinee = None
    /\ lastCall = [op |-> "start_feed", entered |-> TRUE]
    /\ nCalls = MaxCalls
    /\ nChanges = [h \in Handles |-> IF h = 1 THEN 1 ELSE 0]
    /\ nEnq = [h \in Handles |-> 0]
    /\ nFaults = 0
    /\ dirty = [w \in Workers |-> IF w = 1 THEN {1} ELSE {}]
    /\ InitDatabase({})

NextNorm == \E w \in Workers : ProcessData(w)

SpecNorm == InitNorm /\ [][NextNorm]_vars

\* ------------------------------------- after a stop_feed that timed out
\* start_feed(), then stop_feed() called while the worker was between line
\* 111 and line 113: the join timed out and stop_feed cleaned up, reset and
\* returned while worker 1 was entering _handle_connection_loss (a state of
\* Spec).  The script then called start_feed() again, which connected,
\* subscribed, seeded the cache and started worker 2; worker 1 meanwhile put
\* its warning, cleaned up (closing the script's new connection), opened its
\* own and subscribed.  Here the script is about to put its toast and worker
\* 1 is about to seed the cache; the script makes no further call.
InitRace ==
    /\ running = TRUE
    /\ thread = 2
    /\ td_app = 3
    /\ req_ids = [i \in 1..NumSymbols |-> i]
    /\ live_data_objs = [h \in Handles |-> Base(h)]
    /\ data_queue = <<>>
    /\ message_queue = <<ToastStarted, ToastStopped, WarnLost>>
    /\ live_data = [h \in Handles |-> Base(h)]
    /\ open = {3}
    /\ nConn = 3
    /\ pc = [t \in Threads |-> CASE t = Caller -> "sf_toast" [] t = 1 -> "sf_init"
                                 [] t = 2 -> "rf_loop" [] OTHER -> "unborn"]
    /\ attempt = [t \in Threads |-> 0]
    /\ iter = [t \in Threads |-> <<>>]
    /\ slept = [t \in Threads |-> <<>>]
    /\ emitted = [t \in Threads |-> <<>>]
    /\ seen = [t \in Threads |-> NoSeen]
    /\ procOk = [t \in Threads |-> "none"]
    /\ joinee = None
    /\ lastCall = [op |-> "start_feed", entered |-> TRUE]
    /\ nCalls = MaxCalls
    /\ nChanges = [h \in Handles |-> 0]
    /\ nEnq = [h \in Handles |-> 0]
    /\ nFaults = 0
    /\ dirty = [w \in Workers |-> {}]
    /\ InitDatabase({})

\* The steps of the threads, without a new call by the script.
NextRace ==
    \/ \E t \in Threads : Cleanup(t)
    \/ \E t \in Threads : OpenConnection(t)
    \/ \E t \in Threads : Subscribe(t)
    \/ \E t \in Threads : InitializeDataStructures(t)
    \/ \E t \in Threads : StartThread(t)
    \/ \E t \in Threads : StartedToast(t)
    \/ \E w \in Workers : LoopTest(w)
    \/ \E w \in Workers : HealthCheck(w)
    \/ \E w \in Workers : ConnectionLoss(w)
    \/ \E w \in Workers : ReconnectStartFeed(w)
    \/ \E w \in Workers : Compare(w)
    \/ \E w \in Workers : ProcessData(w)
    \/ \E w \in Workers : UpdateCache(w)
    \/ \E h \in Handles : UpstreamUpdate(h)

SpecRace == InitRace /\ [][NextRace]_vars


\* ================================================================ claims
\* Every change of a subscribed handle has been seen: the feed is running,
\* no worker is inside a pass and the cache holds the current snapshots.
CaughtUp ==
    /\ running
    /\ td_app # None
    /\ req_ids # <<>>
    /\ \A w \in Workers : ~InPass(w)
    /\ \A h \in Range(req_ids) :
          h \in DOMAIN live_data_objs /\ live_data_objs[h] = live_data[h]

\* C1 as stated: one Tick Record is enqueued per value change of a handle's
\* snapshot, so once the detector has caught up the number of records
\* enqueued for a handle equals the number of changes of its snapshot.
C1_OneRecordPerChange ==
    CaughtUp => \A h \in Handles : nEnq[h] = nChanges[h]

\* C1 amended: a record is enqueued for a handle only by a poll step of a
\* worker whose comparison found that handle's snapshot different from its
\* cache entry, and every such poll whose snapshot has a symbol enqueues
\* exactly one, carrying the snapshot's values as normalization reads them;
\* changes that fall between two polls are not counted one by one.
C1_EnqueueOnObservedChange ==
    [][/\ \A h \in Handles :
             nEnq'[h] # nEnq[h] =>
                \E w \in Workers :
                   /\ pc[w] = "pl_proc" /\ pc'[w] = "pl_copy"
                   /\ Head(iter[w]) = h
                   /\ seen[w].cur # seen[w].old
                   /\ nEnq'[h] = nEnq[h] + 1
                   /\ data_queue' = Append(data_queue, db_data(live_data[h], NowUTC))
       /\ \A w \in Workers :
             (pc[w] = "pl_proc" /\ pc'[w] # pc[w]
                /\ live_data[Head(iter[w])].symbol # NoSymbol) =>
                /\ seen[w].cur # seen[w].old
                /\ nEnq'[Head(iter[w])] = nEnq[Head(iter[w])] + 1
                /\ Len(data_queue') = Len(data_queue) + 1]_vars

\* Two updates of the second handle fell between two polls and gave one record.
C1_Witness ==
    /\ CaughtUp
    /\ nChanges[2] = 2
    /\ nEnq[2] = 1
    /\ data_queue = <<db_data(Feed(2)[2], NowUTC)>>

\* C2: in a poll pass, a handle whose snapshot equals its cache entry gives no
\* record; one that differs in any field moves on to normalization, which,
\* the snapshot unchanged since the comparison and well formed, enqueues one
\* record with the current values, after which the pass leaves the handle.
C2_PollPass ==
    [][\A w \in Workers :
          LET h == Head(iter[w]) IN
          /\ (pc[w] = "pl_cmp" /\ (pc'[w] # pc[w] \/ iter'[w] # iter[w])
                /\ pc'[w] # "crashed") =>
                IF live_data[h] = live_data_objs[h]
                THEN /\ data_queue' = data_queue
                     /\ pc'[w] # "pl_proc"
                     /\ iter'[w] = Tail(iter[w])
                ELSE pc'[w] = "pl_proc"
          /\ (pc[w] = "pl_proc" /\ pc'[w] # pc[w] /\ live_data[h] = seen[w].cur
                /\ hasattr(live_data[h], "symbol")) =>
                /\ data_queue' = Append(data_queue,
                      [symbol |-> live_data[h].symbol,
                       ts     |-> [clock |-> live_data[h].timestamp.clock, tz |-> "utc"],
                       ltp    |-> live_data[h].ltp,
                       volume |-> live_data[h].ttq])
                /\ pc'[w] = "pl_copy"
          /\ (pc[w] = "pl_copy" /\ pc'[w] # pc[w]) =>
                /\ data_queue' = data_queue
                /\ iter'[w] = Tail(iter[w])]_vars

\* The cache was seeded at 100.00, the price moved to 101.50 and the polls
\* so far enqueued the one record for 101.50.
C2_Witness ==
    /\ CaughtUp
    /\ nChanges = [h \in Handles |-> IF h = 1 THEN 1 ELSE 0]
    /\ Len(data_queue) = 1
    /\ data_queue[1].symbol = "RELIANCE"
    /\ data_queue[1].ltp = 10150
    /\ live_data_objs[1].ltp = 10150


StopFeedReturns == pc[Caller] = "st_reset" /\ pc'[Caller] = "idle"

\* C3 as stated: when a stop_feed that found the feed running returns, the
\* controller is Disconnected: running is False, td_app is None, req_ids and
\* live_data_objs are empty and the stopped toast is on message_queue.
C3_StopLeavesDisconnected ==
    [][StopFeedReturns =>
          /\ running' = FALSE
          /\ td_app' = None
          /\ req_ids' = <<>>
          /\ live_data_objs' = EmptyDict
          /\ ToastStopped \in Range(message_queue')]_vars

\* C4 as stated: stop_feed cleans up the connection, resets the state and puts
\* the stopped toast only when no worker thread is executing _run_feed.
C4_StopAfterWorkerExit ==
    pc[Caller] \in {"st_cc", "st_reset"} => \A w \in Workers : ~Alive(w)

\* C5: stop_feed called when the feed is not running, and start_feed called
\* when it is running, return at once and change no field of the controller,
\* no queue and nothing upstream.
C5_NoOp ==
    [][(nCalls' # nCalls /\ ((lastCall'.op = "stop_feed" /\ ~running)
                             \/ (lastCall'.op = "start_feed" /\ running))) =>
          /\ pc' = pc
          /\ UNCHANGED <<running, thread, td_app, req_ids, live_data_objs,
                         data_queue, message_queue, live_data, open, nConn>>]_vars

\* start_feed was called on the running feed and returned without effect.
C5_Witness ==
    /\ lastCall = [op |-> "start_feed", entered |-> FALSE]
    /\ pc[Caller] = "idle"
    /\ running
    /\ message_queue = <<ToastStarted>>

\* C6: a start_feed makes at most 3 subscribe attempts, waits 1 and then 2
\* time units after the first and the second failure, gives the failure to
\* the error handler only at the third; a call whose subscription succeeded
\* sets running and starts a worker, and puts the success toast as its only
\* message.
C6_RetryBackoff ==
    [][\A t \in Threads :
          /\ attempt'[t] <= 2
          /\ pc'[t] = "sf_sub" => slept'[t] = SubSeq(<<1, 2>>, 1, attempt'[t])
          /\ (pc[t] = "sf_sub" /\ pc'[t] = "hse_cc") =>
                attempt[t] = 2 /\ slept[t] = <<1, 2>>
          /\ (pc[t] = "sf_run" /\ pc'[t] = "sf_toast") =>
                running' /\ Alive(thread)' /\ pc[thread'] = "unborn"
          /\ (pc[t] = "sf_toast" /\ pc'[t] # pc[t]) =>
                /\ emitted[t] = <<>>
                /\ message_queue' = Append(message_queue, ToastStarted)]_vars

\* The subscription failed twice and succeeded at the third attempt, and the
\* caller's start_feed has set running and started the worker.
C6_Witness ==
    /\ pc[Caller] = "sf_toast"
    /\ attempt[Caller] = 2
    /\ slept[Caller] = <<1, 2>>
    /\ running
    /\ Alive(thread)
    /\ message_queue = <<>>

\* C7 as stated: a start_feed that fails returns with exactly one error
\* message put, running False, td_app None, and no handle left in req_ids or
\* in the Last-Seen Cache.
C7_FullRollback ==
    [][\A t \in Threads :
          (pc[t] = "hse_cc" /\ pc'[t] # pc[t]) =>
             /\ Len(emitted[t]) = 1
             /\ emitted[t][1][1] = "error"
             /\ running' = FALSE
             /\ td_app' = None
             /\ req_ids' = <<>>
             /\ live_data_objs' = EmptyDict]_vars

\* C8 as stated: no exception raised in an iteration of _run_feed leaves the
\* worker thread.
C8_NoExceptionEscapes ==
    \A w \in Workers : pc[w] # "crashed"

\* C9: normalization of a snapshot without symbol puts the error message and
\* no record, and the pass goes on: the cache update follows, then the next
\* handle of the pass, or the loop test before the next pass.
C9_MalformedTickDropped ==
    [][\A w \in Workers :
          /\ (pc[w] = "pl_proc" /\ pc'[w] # pc[w]
                /\ live_data[Head(iter[w])].symbol = NoSymbol) =>
                /\ message_queue' = Append(message_queue, ErrData)
                /\ data_queue' = data_queue
                /\ pc'[w] = "pl_copy"
                /\ iter'[w] = iter[w]
          /\ (pc[w] = "pl_copy" /\ pc'[w] # pc[w]) =>
                /\ iter'[w] = Tail(iter[w])
                /\ pc'[w] = IF Len(iter[w]) > 1 THEN "pl_cmp" ELSE "rf_loop"]_vars

\* The first handle's snapshot lost its symbol: the error is on the queue, no
\* record was added for it, and the worker is at the second handle.
C9_Witness ==
    \E w \in Workers :
       /\ procOk[w] = "failed"
       /\ pc[w] = "pl_cmp"
       /\ iter[w] = <<2>>
       /\ ErrData \in Range(message_queue)
       /\ nEnq[1] < nChanges[1]

\* C10 as stated: the health check passes only when running and td_app is
\* non-null; a running controller without connection object is found
\* unhealthy; reconnection starts only from a running controller.
C10_HealthCheck ==
    [][\A w \in Workers :
          (pc[w] = "rf_health" /\ pc'[w] # pc[w]) =>
             /\ pc'[w] # "hcl" => (running /\ td_app # None)
             /\ (running /\ td_app = None) => pc'[w] = "hcl"
             /\ pc'[w] = "hcl" => running]_vars

\* The script thread is inside execute_query.
InExecuteQuery == pc[Caller] \in {"eq_conn", "eq_exec", "eq_commit", "eq_rollback", "eq_return"}

\* execute_query, called by _store_data, ends with an exception in this step.
UpsertFails ==
    /\ query = "INSERT"
    /\ \/ pc[Caller] = "eq_conn" /\ pc'[Caller] \notin {"eq_conn", "eq_exec"}
       \/ pc[Caller] = "eq_return" /\ pc'[Caller] # "eq_return" /\ exc # "none"

\* C11: when the upsert of a record fails, the error message is put on
\* message_queue, the record is neither put back on data_queue nor written
\* to the table, no exception leaves process_queue, and the drain goes back
\* to its test of the queue, from which every record still queued is taken
\* in turn and handed to storage.
C11_StorageFailure ==
    [][/\ UpsertFails =>
             /\ message_queue' = Append(message_queue, ErrDb)
             /\ data_queue' = data_queue
             /\ table' = table
             /\ pc'[Caller] = "pq_test"
       /\ pc'[Caller] # "raised"
       /\ (pc[Caller] = "pq_test" /\ pc'[Caller] # "pq_test") =>
             pc'[Caller] = IF data_queue = <<>> THEN "idle" ELSE "pq_get"
       /\ (pc[Caller] = "pq_get" /\ pc'[Caller] # "pq_get") =>
             /\ data_queue # <<>>
             /\ data' = Head(data_queue)
             /\ query' = "INSERT"
             /\ pc'[Caller] = "eq_conn"]_vars

\* One call of process_queue: the first record's upsert failed and left its
\* message, the second record was stored after it.
C11_Witness ==
    /\ nCalls = 1
    /\ pc[Caller] = "idle"
    /\ Len(handed) = 2
    /\ handed[1] \notin table
    /\ handed[2] \in table
    /\ ErrDb \in Range(message_queue)
    /\ data_queue = <<>>

\* C12: the table never holds two rows with one (symbol, ts) key, a row once
\* stored is never changed or removed, and a commit adds the record as a row
\* exactly when no row has its key: on a collision the table stays as it is
\* and the statement is not an error.
C12_UpsertNoOp ==
    [][/\ \A x, y \in table' : Key(x) = Key(y) => x = y
       /\ table \subseteq table'
       /\ (pc[Caller] = "eq_commit" /\ pc'[Caller] = "eq_return") =>
             table' = IF \E x \in table : Key(x) = Key(data)
                      THEN table ELSE table \cup {data}
       /\ (pc[Caller] = "eq_return" /\ pc'[Caller] # "eq_return"
             /\ query = "INSERT" /\ exc = "none") =>
             message_queue' = message_queue]_vars

\* A record with the key of a stored row and other values went through
\* process_queue: the old row is still the table's only row, no error shown.
C12_Witness ==
    /\ pc[Caller] = "idle"
    /\ table = {OldRow}
    /\ Len(handed) = 1
    /\ Key(handed[1]) = Key(OldRow)
    /\ handed[1] # OldRow
    /\ ErrDb \notin Range(message_queue)
    /\ _connection_pool = ThePool

\* C13: data_queue changes only by a record appended at its tail or by its
\* oldest record leaving it for storage; what is handed to storage is each
\* time that oldest record, so records are handed over in enqueue order, and
\* each enqueued record is either still queued or was handed over once.
C13_FifoDrain ==
    [][/\ data_queue' # data_queue =>
             \/ /\ Len(data_queue') = Len(data_queue) + 1
                /\ SubSeq(data_queue', 1, Len(data_queue)) = data_queue
                /\ handed' = handed
             \/ /\ data_queue # <<>>
                /\ data_queue' = Tail(data_queue)
                /\ handed' = Append(handed, Head(data_queue))
       /\ handed' # handed => data_queue' # data_queue
       /\ Len(handed') + Len(data_queue') = nEnq'[1] + nEnq'[2]]_vars

\* Two records of the second instrument were handed to storage in the order
\* of their enqueuing while the worker is inside a pass.
C13_Witness ==
    /\ Len(handed) = 2
    /\ handed[1] = db_data(Feed(2)[1], NowUTC)
    /\ handed[2] = db_data(Feed(2)[2], NowUTC)
    /\ pc[Caller] = "eq_exec"
    /\ \E w \in Workers : InPass(w)

\* C14: message_queue changes only by a message appended at its tail or by
\* its oldest message leaving it for the display; what is shown is each time
\* that oldest message, as a toast with its icon, an error or a warning;
\* process_messages never raises and returns only on an empty queue; a
\* worker that has a message to put can always put it.
C14_MessageDrain ==
    [][/\ message_queue' # message_queue =>
             \/ /\ Len(message_queue') = Len(message_queue) + 1
                /\ SubSeq(message_queue', 1, Len(message_queue)) = message_queue
                /\ shown' = shown
             \/ /\ message_queue # <<>>
                /\ pc[Caller] = "pm_get"
                /\ message_queue' = Tail(message_queue)
                /\ LET m == Head(message_queue) IN
                   shown' = Append(shown,
                      CASE m[1] = "toast"   -> <<"st.toast", m[2], m[3]>>
                        [] m[1] = "error"   -> <<"st.error", m[2]>>
                        [] m[1] = "warning" -> <<"st.warning", m[2]>>)
       /\ (shown' # shown /\ message_queue' = message_queue) =>
             shown' = Append(shown, ErrFetch)
       /\ pc'[Caller] # "raised"
       /\ (pc[Caller] = "pm_test" /\ pc'[Caller] = "idle") => message_queue' = <<>>
       /\ \A w \in Workers : pc[w] = "pl_proc" => ENABLED ProcessData(w)]_vars

\* process_messages showed the start toast and then the error of a snapshot
\* without symbol, in the order they were put, and left the queue empty.
C14_Witness ==
    /\ pc[Caller] = "idle"
    /\ lastCall.op = "process_messages"
    /\ shown = << <<"st.toast", ToastStarted[2], ToastStarted[3]>>,
                  <<"st.error", ErrData[2]>> >>
    /\ message_queue = <<>>

\* C15: at most maxconn connections are out of the pool, and none is while
\* the script is outside execute_query: the connection a call acquired is
\* back in the pool when the call has returned or raised.
C15_PoolRelease ==
    /\ used <= maxconn
    /\ used = IF conn = None THEN 0 ELSE 1
    /\ ~InExecuteQuery => used = 0
    /\ pc[Caller] \in {"eq_exec", "eq_commit", "eq_rollback", "eq_return"} => used = 1

\* The one call made so far acquired a connection (the pool exists), failed
\* after that (the message) and has returned: no connection is out.
C15_Witness ==
    /\ nCalls = 1
    /\ pc[Caller] = "idle"
    /\ Len(handed) = 1
    /\ handed[1] \notin table
    /\ _connection_pool = ThePool
    /\ ErrDb \in Range(message_queue)
    /\ used = 0

\* Worker w ends a detection pass in this step.
PassEnds(w) == InPass(w) /\ pc'[w] = "rf_loop"

\* C16 as stated: when a detection pass ends, and when start_feed has seeded
\* the cache, every handle of req_ids whose snapshot did not change meanwhile
\* has a cache entry equal to its snapshot; and an update of a snapshot
\* leaves the cache as it is.
C16_CacheEqualsSnapshot ==
    [][/\ \A w \in Workers :
             PassEnds(w) =>
                \A h \in Range(req_ids') \ dirty[w] :
                   /\ h \in DOMAIN live_data_objs'
                   /\ live_data_objs'[h] = live_data'[h]
       /\ \A t \in Threads :
             (pc[t] = "sf_init" /\ pc'[t] = "sf_run") =>
                \A h \in Range(req_ids') :
                   /\ h \in DOMAIN live_data_objs'
                   /\ live_data_objs'[h] = live_data'[h]
       /\ live_data' # live_data => live_data_objs' = live_data_objs]_vars

\* Positions from which a thread's next step writes running, td_app, req_ids
\* or live_data_objs.
WritePcs == {"sf_cc", "sf_td", "sf_sub", "sf_init", "sf_run", "hse_cc",
             "st_cc", "st_reset", "hcl_cc", "pl_copy"}

\* C17 as stated: the script thread inside start_feed or stop_feed and a
\* worker thread inside _run_feed are never both at a write of running,
\* td_app, req_ids or live_data_objs.
C17_SingleWriter ==
    ~(pc[Caller] \in WritePcs /\ \E w \in Workers : pc[w] \in WritePcs)

\* C18 as stated: line 143 overwrites the cache entry only after a record of
\* the changed snapshot was put on data_queue; after a normalization that
\* failed it leaves the cache as it is.
C18_CacheOnlyAfterEnqueue ==
    [][\A w \in Workers :
          (pc[w] = "pl_copy" /\ pc'[w] # pc[w] /\ procOk[w] # "ok") =>
             live_data_objs' = live_data_objs]_vars

\* C18 amended: a polling worker writes the cache only at line 143, after
\* _process_data has returned for that handle, having put either a record on
\* data_queue or the error message on message_queue; in both cases the entry
\* of that handle, and no other, becomes the snapshot as it is then.
C18_CacheAfterNormalization ==
    [][\A w \in Workers :
          LET h == Head(iter[w]) IN
          /\ (pc[w] = "pl_copy" /\ pc'[w] # pc[w]) =>
                /\ procOk[w] \in {"ok", "failed"}
                /\ procOk[w] = "ok" => nEnq[h] > 0
                /\ procOk[w] = "failed" => ErrData \in Range(message_queue)
                /\ live_data_objs' =
                      [x \in (DOMAIN live_data_objs) \cup {h} |->
                          IF x = h THEN live_data[h] ELSE live_data_objs[x]]
          /\ (pc[w] \in {"pl_cmp", "pl_proc"}
                /\ (pc'[w] # pc[w] \/ iter'[w] # iter[w])) =>
                live_data_objs' = live_data_objs]_vars

\* The first instrument's snapshot lost its symbol: no record was put for
\* it, the error message was, and the cache entry is that snapshot.
C18_Witness ==
    /\ 1 \in DOMAIN live_data_objs
    /\ live_data_objs[1] = Feed(1)[2]
    /\ nChanges[1] = 2
    /\ nEnq[1] = 1
    /\ ErrData \in Range(message_queue)
    /\ \A w \in Workers : ~InPass(w)

C20_OneWorker ==
    Cardinality({w \in Workers : Alive(w)}) <= 1

\* C21 as stated: every run of _cleanup_connection that finds a connection
\* in td_app disconnects it before td_app becomes None, also when
\* stop_live_data raises; so when the script is back from start_feed or
\* stop_feed and no worker is left, no connection is open other than the one
\* td_app holds.
C21_CleanupDisconnects ==
    [][/\ \A t \in Threads :
             (pc[t] \in {site[1] : site \in CleanupSites(t)}
                /\ pc'[t] # pc[t] /\ td_app # None) =>
                /\ td_app' = None
                /\ td_app \notin open'
       /\ (pc'[Caller] = "idle" /\ \A w \in Workers : ~Alive(w)') =>
             open' \subseteq {td_app'}]_vars

====
